---- MODULE Spec2Model ----
(***************************************************************************)
(* Model of src/bot.py: the three event handlers of the meme-trader bot    *)
(* (buy on PairCreated, pnl on every block, transfer_all_to_backup on      *)
(* shutdown) and the position table bot.state.buys they share.             *)
(*                                                                         *)
(* Prices are Python floats in the source; here they are exact fractions   *)
(* <<numerator, denominator>> in lowest terms.  On the value sets below    *)
(* the float comparisons of lines 165 and 168 agree with the exact ones.   *)
(* External reads (reserves, balances, allowances, the sentiment reply,    *)
(* the fate of a transaction) are inputs of the handler that reads them.   *)
(***************************************************************************)
EXTENDS Integers, Sequences, FiniteSets, TLC

(* ------------------------------ bounds -------------------------------- *)

\* Number of Buy records constructed in one behaviour.
MaxBuys == 2
\* Number of buy handlers suspended at the sentiment await at one time.
MaxPending == 1

(* ------------------------ the modelled world -------------------------- *)

WETH == "WETH"
\* token0 of a PairCreated log: the reference asset or any other asset.
Token0Vals == {WETH, "OTHER"}
\* token1 of a PairCreated log that passed the WETH filter.
Tokens == {"t1", "t2", "t3"}
\* token.symbol(): t1 and t2 share a symbol.
SymbolOf == [t \in Tokens |-> IF t = "t3" THEN "B" ELSE "A"]
\* token.decimals()
DecimalsOf == [t \in Tokens |-> IF t = "t1" THEN 0 ELSE 1]
\* values a reserve read can return (uint112 in the pair contract)
ReserveVals == {0, 1, 1001}
\* values token.balanceOf(bot.signer) can return
BalVals == {0, 2}
\* values bot.signer.balance can return
EthVals == {1, 2}
\* values pair.allowance(bot.signer, router) can return
AllowVals == {0, 2}
\* replies of the sentiment model: a float as <<num, den>>, a reply that
\* float() rejects, or a failed call
RatioVals == {<<0, 1>>, <<1, 2>>}
Replies == [kind : {"float"}, ratio : RatioVals]
           \cup [kind : {"unparsable", "error"}, ratio : {<<0, 1>>}]

VARIABLES
    signer,     \* bot.signer is set (live mode) or not (monitoring mode)
    backup,     \* BACKUP is set
    buys,       \* bot.state.buys: insertion-ordered dict, a sequence of [symbol, buy]
    pending,    \* buy handlers suspended at the await of line 79
    clock,      \* datetime.now of Buy.bought_at, as a count of records made
    running,    \* the bot has not shut down
    writes,     \* external writes issued so far, by kind
    swapBuilt,  \* per Buy (by bought_at): swap-out steps appended for it
    acquired,   \* tokens of the positions recorded by a live entry
    last        \* the last handler step: inputs, calls, result

vars == <<signer, backup, buys, pending, clock, running, writes, swapBuilt,
          acquired, last>>

(* ------------------------------ helpers ------------------------------- *)

RECURSIVE GCD(_, _)
GCD(a, b) == IF b = 0 THEN a ELSE GCD(b, a % b)

\* a / b on non-negative integers, b > 0, as a fraction in lowest terms
Frac(a, b) == LET g == GCD(a, b) IN <<a \div g, b \div g>>

Pow10(n) == IF n = 0 THEN 1 ELSE IF n = 1 THEN 10 ELSE 100

Range(s) == {s[i] : i \in 1..Len(s)}

\* the result of a float division that raised ZeroDivisionError
DivError == <<0, 0>>

Raised(x) == x[2] = 0

\* dict operations on an insertion-ordered sequence of [symbol, buy]
Keys(d) == [i \in 1..Len(d) |-> d[i].symbol]

HasKey(d, k) == \E i \in 1..Len(d) : d[i].symbol = k

DictGet(d, k) == d[CHOOSE i \in 1..Len(d) : d[i].symbol = k].buy

\* an existing key keeps its value
DictSetDefault(d, k, v) ==
    IF HasKey(d, k) THEN d ELSE Append(d, [symbol |-> k, buy |-> v])

\* the table is replaced instead of updated
DictSetOnly(d, k, v) == <<[symbol |-> k, buy |-> v]>>

DictSet(d, k, v) ==
    IF HasKey(d, k)
    THEN [i \in 1..Len(d) |-> IF d[i].symbol = k THEN [symbol |-> k, buy |-> v] ELSE d[i]]
    ELSE Append(d, [symbol |-> k, buy |-> v])

\* the entry is read and left in the table
DictPopKeeps(d, k) == d

DictPop(d, k) == SelectSeq(d, LAMBDA e : e.symbol # k)

\* the removals are put off
PopAllLater(d, ks) == d

RECURSIVE PopAll(_, _)
PopAll(d, ks) == IF ks = <<>> THEN d ELSE PopAll(DictPop(d, Head(ks)), Tail(ks))

\* the Buy model of lines 43-48
Buy(price, amount, bought_at, token_address, pair_address) ==
    [price |-> price, amount |-> amount, bought_at |-> bought_at,
     token_address |-> token_address, pair_address |-> pair_address]

NoLast ==
    [kind |-> "startup", outcome |-> "none", pre |-> <<>>, calls |-> {},
     token0 |-> "none", token |-> "none", recorded |-> 0,
     current |-> <<>>, swap |-> <<>>, drop |-> <<>>, popped |-> <<>>,
     swapped |-> {}, plan |-> <<>>, returned |-> FALSE, prices |-> <<>>,
     profit |-> FALSE, bal |-> <<>>, transfers |-> <<>>,
     reply |-> "none", tx |-> "none", ratio |-> <<0, 1>>,
     reserves |-> <<0, 0>>, spent |-> 0, received |-> 0, executions |-> 0,
     readings |-> <<>>]

(* ------------------------------ startup ------------------------------- *)

\* load_state, with the configuration read at import time
Init ==
    /\ signer \in BOOLEAN
    /\ backup \in BOOLEAN
    /\ buys = <<>>
    /\ pending = <<>>
    /\ clock = 0
    /\ running = TRUE
    /\ writes = {}
    /\ swapBuilt = <<>>
    /\ acquired = {}
    /\ last = NoLast

(* --------------------- buy: the PairCreated handler ------------------- *)

\* the filter lets every pair through
NotBaseNever(token0) == FALSE

\* line 67: the pair does not use WETH as its base token
NotBase(token0) == token0 # WETH

\* the ratio is taken the other way round
SpotPriceInverse(reserve0, reserve1) ==
    IF reserve0 = 0 THEN DivError ELSE Frac(reserve1, reserve0)

\* lines 77 and 158: reserve0 / reserve1
SpotPrice(reserve0, reserve1) ==
    IF reserve1 = 0 THEN DivError ELSE Frac(reserve0, reserve1)

\* the score is not tested
IsDudNever(ratio) == FALSE

\* line 92: float(response.content[0].text) == 0.0
IsDud(ratio) == ratio[1] = 0

\* line 107: int(ratio * bot.signer.balance)
PurchaseAmount(ratio, balance) == (ratio[1] * balance) \div ratio[2]

\* line 128: token_balance / (10**decimals) / purchase_amount
BuyPrice(token_balance, decimals, purchase_amount) ==
    IF purchase_amount = 0 THEN DivError
    ELSE Frac(token_balance, Pow10(decimals) * purchase_amount)

\* a failed transaction is not raised
ExecuteSilent(executed) == FALSE

\* lines 121-126: router.execute raises when the transaction fails
ExecuteRaises(executed) == ~executed

\* lines 99-104: the simulated buy of monitoring mode
PaperBuy(p, now) ==
    Buy(p.current_price, Pow10(p.decimals), now, p.token, p.pair)

\* lines 134-139: the buy recorded after a swap
LiveBuy(p, buy_price, purchase_amount, now) ==
    Buy(buy_price, purchase_amount, now, p.token, p.pair)

\* lines 66-90: from the log to the await of the sentiment call
BuyStart(token0, token1, reserve0, reserve1) ==
    /\ running
    /\ Len(pending) < MaxPending
    /\ clock + Len(pending) < MaxBuys
    /\ LET current_price == SpotPrice(reserve0, reserve1)
           frame == [NoLast EXCEPT !.kind = "buy", !.pre = buys,
                                   !.token0 = token0, !.token = token1]
       IN  IF NotBase(token0)
           THEN /\ last' = [frame EXCEPT !.outcome = "skipped"]
                /\ pending' = pending
           ELSE IF Raised(current_price)
           THEN /\ last' = [frame EXCEPT !.outcome = "ZeroDivisionError",
                                         !.calls = {"getReserves"}]
                /\ pending' = pending
           ELSE /\ last' = [frame EXCEPT !.outcome = "suspended",
                                         !.calls = {"getReserves", "ai"}]
                /\ pending' = Append(pending,
                       [token |-> token1, symbol |-> SymbolOf[token1],
                        decimals |-> DecimalsOf[token1],
                        pair |-> <<token0, token1>>,
                        reserve0 |-> reserve0, reserve1 |-> reserve1,
                        current_price |-> current_price])
    /\ UNCHANGED <<signer, backup, buys, clock, running, writes, swapBuilt, acquired>>

\* lines 79-141: from the reply of the sentiment call to the end
BuyResume(i, reply, balance, executed, token_balance) ==
    /\ running
    /\ i \in 1..Len(pending)
    /\ LET p == pending[i]
           frame == [NoLast EXCEPT !.kind = "buy", !.pre = buys,
                                   !.token0 = p.pair[1], !.token = p.token,
                                   !.reply = reply.kind, !.ratio = reply.ratio,
                                   !.reserves = <<p.reserve0, p.reserve1>>]
           purchase_amount == PurchaseAmount(reply.ratio, balance)
           sent == [frame EXCEPT !.tx = IF executed THEN "ok" ELSE "failed",
                                 !.executions = 1,
                                 !.spent = purchase_amount,
                                 !.received = IF executed THEN token_balance ELSE 0]
           buy_price == BuyPrice(token_balance, p.decimals, purchase_amount)
       IN  /\ pending' = SubSeq(pending, 1, i - 1) \o SubSeq(pending, i + 1, Len(pending))
           /\ IF reply.kind = "error"
              THEN /\ last' = [frame EXCEPT !.outcome = "ScoringUnavailable"]
                   /\ UNCHANGED <<buys, clock, writes, swapBuilt>>
              ELSE IF reply.kind = "unparsable"
              THEN /\ last' = [frame EXCEPT !.outcome = "ValueError"]
                   /\ UNCHANGED <<buys, clock, writes, swapBuilt>>
              ELSE IF IsDud(reply.ratio)
              THEN /\ last' = [frame EXCEPT !.outcome = "dud"]
                   /\ UNCHANGED <<buys, clock, writes, swapBuilt>>
              ELSE IF ~signer
              THEN /\ buys' = DictSet(buys, p.symbol, PaperBuy(p, clock + 1))
                   /\ clock' = clock + 1
                   /\ swapBuilt' = Append(swapBuilt, 0)
                   /\ last' = [frame EXCEPT !.outcome = "recorded",
                                            !.recorded = clock + 1]
                   /\ UNCHANGED writes
              ELSE IF ExecuteRaises(executed)
              THEN /\ writes' = writes \cup {"execute"}
                   /\ last' = [sent EXCEPT !.outcome = "ExecutionFailed",
                                            !.calls = {"execute"}]
                   /\ UNCHANGED <<buys, clock, swapBuilt>>
              ELSE IF Raised(buy_price)
              THEN /\ writes' = writes \cup {"execute"}
                   /\ last' = [sent EXCEPT !.outcome = "ZeroDivisionError",
                                           !.calls = {"execute", "balanceOf"}]
                   /\ UNCHANGED <<buys, clock, swapBuilt>>
              ELSE /\ writes' = writes \cup {"execute"}
                   /\ buys' = DictSet(buys, p.symbol,
                                      LiveBuy(p, buy_price, purchase_amount, clock + 1))
                   /\ clock' = clock + 1
                   /\ swapBuilt' = Append(swapBuilt, 0)
                   /\ last' = [sent EXCEPT !.outcome = "recorded",
                                           !.recorded = clock + 1,
                                           !.calls = {"execute", "balanceOf"}]
           /\ acquired' = IF /\ signer
                             /\ reply.kind = "float"
                             /\ ~IsDud(reply.ratio)
                             /\ ~ExecuteRaises(executed)
                             /\ ~Raised(buy_price)
                          THEN acquired \cup {p.token}
                          ELSE acquired
    /\ UNCHANGED <<signer, backup, running>>

(* ------------------------ pnl: the block handler ---------------------- *)

\* line 162: (current_price - buy.price) / buy.price, as <<num, den>>, den > 0
PnL(current_price, price) ==
    IF price[1] = 0 THEN DivError
    ELSE <<current_price[1] * price[2] - price[1] * current_price[2],
           current_price[2] * price[1]>>

\* line 165: pnl > 1000.0
Profitable(pnl) == pnl[1] > 1000 * pnl[2]

\* the threshold as a loss of 99%
RuggedCrash(pnl) == 100 * pnl[1] < (0 - 99) * pnl[2]

\* the threshold fires for gains only
RuggedRise(pnl) == pnl[1] >= 0 /\ pnl[1] < 99 * pnl[2]

\* line 168: pnl < 99.0
Rugged(pnl) == pnl[1] < 99 * pnl[2]

\* lines 150-152: one getReserves call per position, in table order
Multicall(d) == [i \in 1..Len(d) |-> d[i].buy.pair_address]

\* line 157, call(): the results, in the order of the calls
CallResults(call, reserves) == [i \in 1..Len(call) |-> reserves[call[i]]]

\* the results are matched to the keys in the opposite order
ZipReversed(d, results) ==
    [i \in 1..(IF Len(d) < Len(results) THEN Len(d) ELSE Len(results)) |->
        [symbol |-> Keys(d)[Len(d) + 1 - i], reserves |-> results[i]]]

\* line 157: zip(bot.state.buys, call())
Zip(d, results) ==
    [i \in 1..(IF Len(d) < Len(results) THEN Len(d) ELSE Len(results)) |->
        [symbol |-> Keys(d)[i], reserves |-> results[i]]]

\* lines 157-169: the classification loop; it stops at the first division
\* that raises
RECURSIVE Classify(_, _, _)
Classify(d, rows, acc) ==
    IF rows = <<>> \/ acc.error THEN acc
    ELSE LET symbol == Head(rows).symbol
             current_price == SpotPrice(Head(rows).reserves[1], Head(rows).reserves[2])
             tracked == HasKey(d, symbol)
             buy == DictGet(d, symbol)
             pnl == PnL(current_price, buy.price)
         IN  IF Raised(current_price) \/ (tracked /\ Raised(pnl))
             THEN [acc EXCEPT !.error = TRUE]
             ELSE Classify(d, Tail(rows),
                    [acc EXCEPT
                       !.prices = DictSet(acc.prices, symbol, current_price),
                       !.swap = IF tracked /\ Profitable(pnl)
                                THEN Append(acc.swap, symbol) ELSE acc.swap,
                       !.drop = IF tracked /\ ~Profitable(pnl) /\ Rugged(pnl)
                                THEN Append(acc.drop, symbol) ELSE acc.drop])

Classified(d, reserves) ==
    Classify(d, Zip(d, CallResults(Multicall(d), reserves)),
             [error |-> FALSE, prices |-> <<>>, swap |-> <<>>, drop |-> <<>>])

\* the signer is not asked for
NoExitUnsigned(hasSigner, tokens_to_swap) == tokens_to_swap = <<>>

\* the emptiness test is inverted
NoExitInverted(hasSigner, tokens_to_swap) == ~hasSigner \/ tokens_to_swap # <<>>

\* line 174: nothing to sell, or nobody to sell it
NoExit(hasSigner, tokens_to_swap) == ~hasSigner \/ tokens_to_swap = <<>>

\* the balance is not tested
NothingHeldNever(token_balance) == FALSE

\* line 183: token.balanceOf(bot.signer) == 0
NothingHeld(token_balance) == token_balance = 0

\* lines 178-207: the loop that pops each position to sell and appends its swap
RECURSIVE ExitLoop(_, _, _, _)
ExitLoop(tokens_to_swap, bal, allow, acc) ==
    IF tokens_to_swap = <<>> \/ acc.error THEN acc
    ELSE LET symbol == Head(tokens_to_swap)
             buy == DictGet(acc.buys, symbol)
             token == buy.token_address
             token_balance == bal[token]
             popped == [acc EXCEPT !.buys = DictPop(acc.buys, symbol),
                                   !.popped = Append(acc.popped, symbol),
                                   !.calls = acc.calls \cup {"balanceOf"}]
         IN  IF ~HasKey(acc.buys, symbol)
             THEN [acc EXCEPT !.error = TRUE]
             ELSE IF NothingHeld(token_balance)
             THEN ExitLoop(Tail(tokens_to_swap), bal, allow, popped)
             ELSE ExitLoop(Tail(tokens_to_swap), bal, allow,
                    [popped EXCEPT
                       !.calls = popped.calls \cup {"allowance"} \cup
                                 (IF allow[token] < token_balance
                                  THEN {"approve"} ELSE {}),
                       !.plan = popped.plan \o
                                <<[op |-> "approve_erc20", symbol |-> symbol,
                                   token |-> token, amount |-> 0],
                                  [op |-> "v2_swap_exact_in", symbol |-> symbol,
                                   token |-> token, amount |-> token_balance]>>,
                       !.swapped = popped.swapped \cup {buy.bought_at},
                       !.prices = DictPop(popped.prices, symbol)])

\* the emptiness test is skipped
NoBuysNever(d) == FALSE

\* line 146: len(bot.state.buys) == 0
NoBuys(d) == Len(d) = 0

\* line 209
UnwrapStep == [op |-> "unwrap_weth", symbol |-> "none", token |-> WETH, amount |-> 0]

\* the failure is swallowed
ExitSwallows(failed) == FALSE

\* lines 218-220: a failed transaction raises
ExitRaises(failed) == failed

Writes(calls) == calls \cap {"execute", "approve", "transfer"}

CountSwaps(built, swapped) ==
    [i \in 1..Len(built) |-> IF i \in swapped THEN built[i] + 1 ELSE built[i]]

\* lines 145-225
Pnl(reserves, bal, allow, failed) ==
    /\ running
    /\ LET frame == [NoLast EXCEPT !.kind = "pnl", !.pre = buys]
           c == Classified(buys, reserves)
           dropped == PopAll(buys, c.drop)
           checked == [frame EXCEPT !.calls = {"getReserves"}, !.current = c.prices,
                                    !.readings = reserves,
                                    !.swap = c.swap, !.drop = c.drop,
                                    !.popped = c.drop]
           x == ExitLoop(c.swap, bal, allow,
                         [error |-> FALSE, buys |-> dropped, popped |-> c.drop,
                          calls |-> {"getReserves"}, plan |-> <<>>,
                          swapped |-> {}, prices |-> c.prices])
           sent == [checked EXCEPT !.popped = x.popped, !.swapped = x.swapped,
                                   !.calls = x.calls \cup {"execute"},
                                   !.plan = Append(x.plan, UnwrapStep),
                                   !.bal = bal, !.executions = 1,
                                   !.tx = IF failed THEN "failed" ELSE "ok"]
       IN  IF NoBuys(buys)
           THEN /\ last' = [frame EXCEPT !.outcome = "no_buys", !.returned = TRUE]
                /\ UNCHANGED <<buys, writes, swapBuilt>>
           ELSE IF c.error
           THEN /\ last' = [frame EXCEPT !.outcome = "ZeroDivisionError",
                                         !.calls = {"getReserves"}]
                /\ UNCHANGED <<buys, writes, swapBuilt>>
           ELSE IF NoExit(signer, c.swap)
           THEN /\ buys' = dropped
                /\ last' = [checked EXCEPT !.outcome = "returned", !.returned = TRUE,
                                           !.prices = c.prices]
                /\ UNCHANGED <<writes, swapBuilt>>
           ELSE IF x.error
           THEN /\ buys' = x.buys
                /\ writes' = writes \cup Writes(x.calls)
                /\ swapBuilt' = CountSwaps(swapBuilt, x.swapped)
                /\ last' = [checked EXCEPT !.outcome = "KeyError", !.popped = x.popped,
                                           !.swapped = x.swapped, !.calls = x.calls,
                                           !.plan = x.plan]
           ELSE /\ buys' = x.buys
                /\ writes' = writes \cup Writes(x.calls) \cup {"execute"}
                /\ swapBuilt' = CountSwaps(swapBuilt, x.swapped)
                /\ IF ExitRaises(failed)
                   THEN last' = [sent EXCEPT !.outcome = "raised"]
                   ELSE last' = [sent EXCEPT !.outcome = "returned", !.returned = TRUE,
                                             !.prices = x.prices, !.profit = TRUE]
    /\ UNCHANGED <<signer, backup, pending, clock, running, acquired>>

(* ------------- transfer_all_to_backup: the shutdown handler ----------- *)

\* lines 230-235: live mode with a backup address
SweepEnabled(hasSigner, hasBackup) == hasSigner /\ hasBackup

\* the sweep stops at the first empty balance instead of skipping it
RECURSIVE SweepStops(_, _)
SweepStops(d, bal) ==
    IF d = <<>> THEN <<>>
    ELSE LET buy == Head(d).buy
             token_balance == bal[buy.token_address]
         IN  IF token_balance = 0
             THEN <<>>
             ELSE <<[token |-> buy.token_address, to |-> "BACKUP",
                     amount |-> token_balance]>> \o SweepStops(Tail(d), bal)

\* lines 237-248: one transfer of the whole balance per position that holds any
RECURSIVE SweepTransfers(_, _)
SweepTransfers(d, bal) ==
    IF d = <<>> THEN <<>>
    ELSE LET buy == Head(d).buy
             token_balance == bal[buy.token_address]
         IN  IF token_balance = 0
             THEN SweepTransfers(Tail(d), bal)
             ELSE <<[token |-> buy.token_address, to |-> "BACKUP",
                     amount |-> token_balance]>> \o SweepTransfers(Tail(d), bal)

\* lines 229-248
Shutdown(bal) ==
    /\ running
    /\ running' = FALSE
    /\ LET frame == [NoLast EXCEPT !.kind = "shutdown", !.pre = buys, !.returned = TRUE]
           transfers == SweepTransfers(buys, bal)
       IN  IF ~signer
           THEN /\ last' = [frame EXCEPT !.outcome = "no_signer"]
                /\ writes' = writes
           ELSE IF ~SweepEnabled(signer, backup)
           THEN /\ last' = [frame EXCEPT !.outcome = "no_backup"]
                /\ writes' = writes
           ELSE /\ last' = [frame EXCEPT !.outcome = "swept", !.bal = bal,
                                         !.transfers = transfers,
                                         !.calls = (IF buys = <<>> THEN {} ELSE {"balanceOf"})
                                             \cup (IF transfers = <<>> THEN {} ELSE {"transfer"})]
                /\ writes' = writes \cup (IF transfers = <<>> THEN {} ELSE {"transfer"})
    /\ UNCHANGED <<signer, backup, buys, pending, clock, swapBuilt, acquired>>

(* --------------------------- specification ---------------------------- *)

Pairs(d) == {d[i].buy.pair_address : i \in 1..Len(d)}

Held(d) == {d[i].buy.token_address : i \in 1..Len(d)}

Reserves == ReserveVals \X ReserveVals

PairCreated ==
    \E token0 \in Token0Vals, token1 \in Tokens, r \in Reserves :
        BuyStart(token0, token1, r[1], r[2])

Scored ==
    \E i \in 1..Len(pending), reply \in Replies, balance \in EthVals,
       executed \in BOOLEAN, token_balance \in BalVals :
        BuyResume(i, reply, balance, executed, token_balance)

\* the reads after line 174 happen only when the exit loop runs
NewBlock ==
    \E reserves \in [Pairs(buys) -> Reserves] :
        LET c == Classified(buys, reserves)
            sold == {DictGet(buys, c.swap[i]).token_address : i \in 1..Len(c.swap)}
        IN  IF c.error \/ NoExit(signer, c.swap)
            THEN Pnl(reserves, <<>>, <<>>, FALSE)
            ELSE \E bal \in [sold -> BalVals], allow \in [sold -> AllowVals],
                    failed \in BOOLEAN :
                     Pnl(reserves, bal, allow, failed)

Stop == \E bal \in [Held(buys) \cup acquired -> BalVals] : Shutdown(bal)

Next == PairCreated \/ Scored \/ NewBlock \/ Stop

Spec == Init /\ [][Next]_vars

(* ------------------------------ properties ---------------------------- *)

ExternalWrites == {"execute", "approve", "transfer"}

\* the positions in the table when the last handler step began
PrePositions == Range(last.pre)

\* the position is in the table, unchanged
Tracked(e) == \E i \in 1..Len(buys) : buys[i] = e

\* the Buy made at that moment is in the table
Present(e) == \E i \in 1..Len(buys) : buys[i].buy.bought_at = e.buy.bought_at

\* the last step was a block handler that priced every position
TickClassified == last.kind = "pnl" /\ last.outcome # "ZeroDivisionError"

\* (current - entry) / entry against a threshold, cross-multiplied
Gain(e) ==
    LET c == DictGet(last.current, e.symbol)
    IN  c[1] * e.buy.price[2] - e.buy.price[1] * c[2]

Unit(e) == DictGet(last.current, e.symbol)[2] * e.buy.price[1]

Above1000(e) == Gain(e) > 1000 * Unit(e)

Below99(e) == Gain(e) < 99 * Unit(e)

Fallen(e) == Gain(e) < 0

PopCount(symbol) == Cardinality({i \in 1..Len(last.popped) : last.popped[i] = symbol})

SwapSteps(symbol) ==
    {i \in 1..Len(last.plan) :
        last.plan[i].op = "v2_swap_exact_in" /\ last.plan[i].symbol = symbol}

\* C1: in monitoring mode no handler ever issues an external write: no
\* router execution, no approval, no transfer, and no swap is planned.
C1_MonitoringNeverWrites ==
    ~signer =>
        /\ writes = {}
        /\ last.calls \cap ExternalWrites = {}
        /\ last.plan = <<>>
        /\ last.swapped = {}
        /\ last.transfers = <<>>

C1_Witness == ~signer /\ last.kind = "pnl" /\ last.swap # <<>> /\ last.returned

\* C2 as stated: in every mode a position with pnl > 1000 is in the
\* profit-take set and is removed from the table exactly once in that tick.
C2_RemovedInEveryMode ==
    TickClassified =>
        \A e \in PrePositions :
            Above1000(e) =>
                /\ e.symbol \in Range(last.swap)
                /\ PopCount(e.symbol) = 1
                /\ ~Present(e)

\* C2 amended: a position with pnl > 1000 is in the profit-take set of the
\* tick; with a signer it is removed from the table exactly once in that
\* tick, without a signer it is not removed and stays in the table unchanged.
C2_RemovedInLiveMode ==
    TickClassified =>
        \A e \in PrePositions :
            Above1000(e) =>
                /\ e.symbol \in Range(last.swap)
                /\ signer => PopCount(e.symbol) = 1 /\ ~Present(e)
                /\ ~signer => PopCount(e.symbol) = 0 /\ Tracked(e)

C2_Witness ==
    /\ signer
    /\ TickClassified
    /\ \E e \in PrePositions : Above1000(e) /\ ~Present(e) /\ PopCount(e.symbol) = 1

\* C3: after a tick that priced every position, each position with
\* pnl < 99 is gone from the table and no swap was planned for it, with or
\* without a signer; each position with 99 <= pnl <= 1000 is still in the
\* table, unchanged.
C3_RugDropAndHold ==
    TickClassified =>
        \A e \in PrePositions :
            /\ Below99(e) =>
                   /\ ~Present(e)
                   /\ ~HasKey(buys, e.symbol)
                   /\ e.buy.bought_at \notin last.swapped
                   /\ SwapSteps(e.symbol) = {}
            /\ (~Below99(e) /\ ~Above1000(e)) => Tracked(e)

C3_Witness ==
    /\ ~signer
    /\ TickClassified
    /\ \E e \in PrePositions : Below99(e) /\ ~Present(e)
    /\ \E e \in PrePositions : ~Below99(e) /\ ~Above1000(e) /\ Tracked(e)

\* C4 as stated: a position whose current price is below its entry price
\* is not rug-dropped and is still in the table after the tick.
C4_FallenPriceKept ==
    TickClassified => \A e \in PrePositions : Fallen(e) => Tracked(e)

\* C4 amended: a position whose current price is below its entry price
\* (negative pnl) meets pnl < 99, is put in the drop set and is gone from
\* the table after the tick.
C4_FallenPriceDropped ==
    TickClassified =>
        \A e \in PrePositions :
            Fallen(e) => e.symbol \in Range(last.drop) /\ ~HasKey(buys, e.symbol)

C4_Witness ==
    /\ TickClassified
    /\ \E e \in PrePositions :
           /\ Fallen(e)
           /\ DictGet(last.current, e.symbol)[1] > 0
           /\ ~HasKey(buys, e.symbol)

\* C5: over any sequence of ticks, failed and repeated ones included, at
\* most one swap-out step is ever built for a recorded position.
C5_SwapBuiltAtMostOnce == \A i \in 1..Len(swapBuilt) : swapBuilt[i] <= 1

C5_Witness ==
    /\ last.kind = "pnl"
    /\ last.pre # <<>>
    /\ \E i \in 1..Len(swapBuilt) : swapBuilt[i] = 1 /\ i \notin last.swapped

\* C6: when the exit transaction of a tick fails, the tick handler raises:
\* it reports no profit and returns nothing.
C6_FailedExitRaises ==
    (last.kind = "pnl" /\ last.tx = "failed") =>
        /\ last.outcome = "raised"
        /\ ~last.returned
        /\ ~last.profit

C6_Witness ==
    last.kind = "pnl" /\ last.tx = "failed" /\ last.swapped # {} /\ ~last.returned

\* C7 as stated: a position leaves the table only in a tick that rug-drops
\* it or that puts its swap-out in a submitted exit transaction.
C7_LeavesOnlyDroppedOrSold ==
    \A e \in PrePositions :
        ~Present(e) =>
            /\ last.kind = "pnl"
            /\ \/ e.symbol \in Range(last.drop)
               \/ e.buy.bought_at \in last.swapped /\ "execute" \in last.calls

\* C7 amended: a position leaves the table only in a tick that rug-drops it
\* (pnl < 99), in a live tick that takes profit on it (pnl > 1000, whether or
\* not a swap-out is built for it), or when an entry for the same symbol is
\* recorded over it.
C7_LeavesOnlyDroppedPoppedOrOverwritten ==
    \A e \in PrePositions :
        ~Present(e) =>
            \/ TickClassified /\ (Below99(e) \/ (signer /\ Above1000(e)))
            \/ /\ last.kind = "buy"
               /\ last.recorded > 0
               /\ SymbolOf[last.token] = e.symbol
               /\ HasKey(buys, e.symbol)
               /\ DictGet(buys, e.symbol).bought_at = last.recorded

C7_Witness ==
    /\ TickClassified
    /\ \E e \in PrePositions :
           Above1000(e) /\ ~Present(e) /\ e.buy.bought_at \notin last.swapped
    /\ \E e \in PrePositions : Tracked(e)

TransfersOf(token) ==
    {j \in 1..Len(last.transfers) : last.transfers[j].token = token}

\* C8: a shutdown with signer and backup issues, for each position in the
\* table, one transfer of the whole balance to the backup address when the
\* balance is not zero and none when it is zero, and no other transfer; the
\* table is unchanged.  Without a backup address no transfer is issued.
C8_SweepTransfersHeldBalances ==
    last.kind = "shutdown" =>
        /\ buys = last.pre
        /\ IF signer /\ backup
           THEN /\ \A i \in 1..Len(buys) :
                       LET token == buys[i].buy.token_address
                       IN  /\ Cardinality(TransfersOf(token)) =
                                  (IF last.bal[token] = 0 THEN 0 ELSE 1)
                           /\ \A j \in TransfersOf(token) :
                                  /\ last.transfers[j].amount = last.bal[token]
                                  /\ last.transfers[j].to = "BACKUP"
                /\ \A j \in 1..Len(last.transfers) :
                       last.transfers[j].token \in Held(buys)
           ELSE /\ last.transfers = <<>>
                /\ "transfer" \notin last.calls

C8_Witness ==
    /\ last.kind = "shutdown"
    /\ signer /\ backup
    /\ Len(buys) = 2
    /\ last.bal[buys[1].buy.token_address] = 0
    /\ Len(last.transfers) = 1

C10_OtherBaseIsSkipped ==
    (last.kind = "buy" /\ last.token0 # WETH) =>
        /\ buys = last.pre
        /\ last.calls \cap {"ai", "execute"} = {}
        /\ last.recorded = 0

C10_Witness ==
    /\ last.kind = "buy"
    /\ last.token0 # WETH
    /\ last.outcome = "skipped"
    /\ buys # <<>>

\* C11: an entry whose sentiment score is exactly 0 records nothing and
\* submits no transaction, in both modes; with a score above 0 the entry
\* proceeds: a position is recorded in monitoring mode, the swap is
\* submitted in live mode.
C11_ZeroScoreStopsEntry ==
    (last.kind = "buy" /\ last.reply = "float") =>
        IF last.ratio[1] = 0
        THEN /\ buys = last.pre
             /\ last.recorded = 0
             /\ "execute" \notin last.calls
        ELSE /\ signer => "execute" \in last.calls
             /\ ~signer => /\ last.recorded > 0
                           /\ HasKey(buys, SymbolOf[last.token])
                           /\ DictGet(buys, SymbolOf[last.token]).bought_at = last.recorded

C11_Witness ==
    /\ signer
    /\ last.kind = "buy"
    /\ last.reply = "float"
    /\ last.ratio[1] = 0
    /\ buys # <<>>

\* C12: in monitoring mode an entry with a score above 0 records, under the
\* token's symbol, a position of amount 10^decimals whose price is
\* reserve0 / reserve1 as read for that event, and the router is not called.
C12_PaperEntry ==
    (/\ ~signer
     /\ last.kind = "buy"
     /\ last.reply = "float"
     /\ last.ratio[1] > 0) =>
        /\ last.recorded > 0
        /\ "execute" \notin last.calls
        /\ HasKey(buys, SymbolOf[last.token])
        /\ LET buy == DictGet(buys, SymbolOf[last.token])
           IN  /\ buy.bought_at = last.recorded
               /\ buy.token_address = last.token
               /\ buy.amount = (IF DecimalsOf[last.token] = 1 THEN 10 ELSE 1)
               /\ buy.price[2] > 0
               /\ buy.price[1] * last.reserves[2] = last.reserves[1] * buy.price[2]

C12_Witness ==
    /\ ~signer
    /\ last.kind = "buy"
    /\ last.recorded > 0
    /\ last.reserves = <<1, 1001>>
    /\ DictGet(buys, SymbolOf[last.token]).amount = 10

\* C13: the table never holds two positions of one symbol, and an entry
\* recorded for a symbol that has a position replaces it: the table holds
\* the new entry's price, amount, token and pool under that symbol, and the
\* positions of other symbols are as before.
C13_OnePositionPerSymbol ==
    /\ \A i, j \in 1..Len(buys) : buys[i].symbol = buys[j].symbol => i = j
    /\ (last.kind = "buy" /\ last.recorded > 0) =>
           /\ HasKey(buys, SymbolOf[last.token])
           /\ LET buy == DictGet(buys, SymbolOf[last.token])
                  unit == IF DecimalsOf[last.token] = 1 THEN 10 ELSE 1
              IN  /\ buy.bought_at = last.recorded
                  /\ buy.token_address = last.token
                  /\ buy.pair_address = <<WETH, last.token>>
                  /\ buy.price[2] > 0
                  /\ IF signer
                     THEN /\ buy.amount = last.spent
                          /\ buy.price[1] * unit * last.spent = last.received * buy.price[2]
                     ELSE /\ buy.amount = unit
                          /\ buy.price[1] * last.reserves[2] = last.reserves[1] * buy.price[2]
           /\ Len(buys) = (IF HasKey(last.pre, SymbolOf[last.token])
                           THEN Len(last.pre) ELSE Len(last.pre) + 1)
           /\ \A e \in PrePositions : e.symbol # SymbolOf[last.token] => Tracked(e)

C13_Witness ==
    /\ last.kind = "buy"
    /\ last.recorded > 0
    /\ HasKey(last.pre, SymbolOf[last.token])
    /\ DictGet(last.pre, SymbolOf[last.token]).token_address # last.token
    /\ Len(buys) = 1

\* C14: in one tick no symbol is in both the drop list and the profit-take
\* list; the drops are removed first, each once, and are out of the table
\* when the exit transaction is submitted; no swap is planned for a dropped
\* position.
C14_DropBeforeExit ==
    last.kind = "pnl" =>
        /\ Range(last.swap) \cap Range(last.drop) = {}
        /\ Len(last.popped) >= Len(last.drop)
        /\ SubSeq(last.popped, 1, Len(last.drop)) = last.drop
        /\ \A symbol \in Range(last.drop) :
               /\ PopCount(symbol) = 1
               /\ SwapSteps(symbol) = {}
               /\ "execute" \in last.calls => ~HasKey(buys, symbol)

C14_Witness ==
    /\ last.kind = "pnl"
    /\ "execute" \in last.calls
    /\ last.drop # <<>>
    /\ last.swapped # {}

\* C15: a tick handled while the table is empty reads no price, submits
\* nothing, changes nothing and returns an empty result; handled again, it
\* leaves the state as it is.
C15_EmptyTickIsNoOp ==
    [][(buys = <<>> /\ last'.kind = "pnl") =>
          /\ buys' = <<>>
          /\ UNCHANGED <<pending, clock, running, writes, swapBuilt>>
          /\ last'.calls = {}
          /\ last'.plan = <<>>
          /\ last'.popped = <<>>
          /\ last'.returned
          /\ last'.prices = <<>>
          /\ (last.kind = "pnl" /\ last.pre = <<>>) => last' = last]_vars

C15_Witness ==
    /\ last.kind = "pnl"
    /\ last.pre = <<>>
    /\ last.returned
    /\ clock > 0

UnwrapSteps == {i \in 1..Len(last.plan) : last.plan[i].op = "unwrap_weth"}

\* C16: a live tick with a profit-take list submits one exit transaction;
\* its plan has one swap-out step, for the whole balance, for each listed
\* symbol whose balance is not zero and none for a symbol whose balance is
\* zero, which is removed from the table all the same, and one unwrap step,
\* which comes last.
C16_ExitPlan ==
    (last.kind = "pnl" /\ signer /\ last.swap # <<>>) =>
        /\ last.executions = 1
        /\ "execute" \in last.calls
        /\ \A symbol \in Range(last.swap) :
               LET token == DictGet(last.pre, symbol).token_address
               IN  /\ ~HasKey(buys, symbol)
                   /\ Cardinality(SwapSteps(symbol)) =
                          (IF last.bal[token] = 0 THEN 0 ELSE 1)
                   /\ \A i \in SwapSteps(symbol) :
                          /\ last.plan[i].token = token
                          /\ last.plan[i].amount = last.bal[token]
        /\ \A i \in 1..Len(last.plan) :
               last.plan[i].op = "v2_swap_exact_in" =>
                   last.plan[i].symbol \in Range(last.swap)
        /\ UnwrapSteps = {Len(last.plan)}

C16_Witness ==
    /\ last.kind = "pnl"
    /\ signer
    /\ Len(last.swap) = 2
    /\ last.bal[DictGet(last.pre, last.swap[1]).token_address] = 0
    /\ Cardinality(SwapSteps(last.swap[2])) = 1
    /\ last.returned

\* C17 as stated: after a live entry the recorded price is the amount spent
\* divided by the token balance gained.
C17_EntryPriceIsSpentPerToken ==
    (last.kind = "buy" /\ signer /\ last.recorded > 0) =>
        LET buy == DictGet(buys, SymbolOf[last.token])
        IN  buy.price[1] * last.received = last.spent * buy.price[2]

\* the pnl of a position from the reserves read from its own pool
GainAtPool(e) ==
    last.readings[e.buy.pair_address][1] * e.buy.price[2]
        - e.buy.price[1] * last.readings[e.buy.pair_address][2]

UnitAtPool(e) == last.readings[e.buy.pair_address][2] * e.buy.price[1]

\* C18: a tick that runs while a pair-created handler is suspended, like
\* any other, pairs each position with the reserves read from that
\* position's pool: the price kept for its symbol is that pool's ratio and
\* its place in the profit-take and drop lists follows from that ratio; the
\* suspended handler has not touched the table.
C18_ReservesPairedWithPosition ==
    (TickClassified /\ last.pre # <<>>) =>
        /\ Len(last.current) = Len(last.pre)
        /\ \A e \in PrePositions :
               LET r == last.readings[e.buy.pair_address]
                   c == DictGet(last.current, e.symbol)
               IN  /\ r[2] > 0
                   /\ c[1] * r[2] = r[1] * c[2]
                   /\ e.symbol \in Range(last.swap) <=> GainAtPool(e) > 1000 * UnitAtPool(e)
                   /\ e.symbol \in Range(last.drop) <=> GainAtPool(e) < 99 * UnitAtPool(e)

C18_Witness ==
    /\ TickClassified
    /\ pending # <<>>
    /\ Len(last.pre) = 1
    /\ pending[1].symbol = last.pre[1].symbol
    /\ pending[1].reserve1 # last.readings[last.pre[1].buy.pair_address][2]
    /\ buys = <<>>

\* C19 as stated: a live sweep with a backup address issues a transfer for
\* every token bought by an entry of which the signer holds a balance, also
\* when its position was dropped, overwritten or popped for an exit.
C19_SweepCoversEveryAcquiredToken ==
    (last.kind = "shutdown" /\ signer /\ backup) =>
        \A token \in acquired :
            last.bal[token] # 0 => TransfersOf(token) # {}

\* C20 as stated: every recorded position has a price above 0, so the
\* division of line 162 never raises and a tick over a table that is not
\* empty reaches its drop-removal step.
C20_EntryPricePositive ==
    /\ \A i \in 1..Len(buys) : buys[i].buy.price[1] > 0
    /\ (last.kind = "pnl" /\ last.pre # <<>>
          /\ \A pair \in DOMAIN last.readings : last.readings[pair][2] > 0) =>
           last.outcome # "ZeroDivisionError"

====
